---- MODULE Spec2Model ----
(***************************************************************************)
(* InterviewPro AI backend (src/server.js, and the tiered real-interview   *)
(* handler of the snapshot in src/unnamed/part_002, lines 1019-1828).      *)
(*                                                                         *)
(* One HTTP request is followed from its arrival to its response.  The     *)
(* handler is an async function: it runs to its first await (the chat      *)
(* completion call), is resumed by the upstream reply, may await speech    *)
(* synthesis, and is resumed again.  The 120 s response timer may fire     *)
(* while the handler is suspended.                                         *)
(*                                                                         *)
(* Strings on which the code works character by character (jobTitle,       *)
(* message content, reply text) are sequences of one-character strings.    *)
(* Strings the code only compares (role, voice, error texts) are TLA+      *)
(* strings.  A JavaScript value is a record [t, s] / [t, a]: its typeof    *)
(* tag and its payload.                                                    *)
(***************************************************************************)
EXTENDS Integers, Sequences, FiniteSets, TLC

VARIABLES
    pc,           \* position of the handler: idle, awaitChat, awaitTTS, done
    req,          \* the request being served (handler and body fields)
    chatCalls,    \* calls made to openai.chat.completions.create, in order
    chatReply,    \* what the chat-completion call resolved with (raw)
    ttsCalls,     \* calls made to openai.audio.speech.create, in order
    ttsReply,     \* what the speech call settled with: none, audio or error
    loc,          \* the handler's locals that live across an await
    res,          \* the response object: headersSent, status and body
    timerFired,   \* the res.setTimeout callback has run
    log,          \* lines written with console.error
    unhandled,    \* rejections that escaped the async handler
    eoqText,      \* enforceOneQuestion on its own: the input text
    eoqOut,       \* enforceOneQuestion on its own: the result (applied, text, again)
    siValue,      \* sanitizeInput on its own: the input value
    siOut,        \* sanitizeInput on its own: the results of one and of two passes
    apiSecret,    \* process.env.API_SECRET: a string, or undefined
    hits,         \* the requests each rate limiter has counted in its window
    routed        \* the middleware chain: the last request and who answered it

vars == <<pc, req, chatCalls, chatReply, ttsCalls, ttsReply, loc, res, timerFired, log,
          unhandled, eoqText, eoqOut, siValue, siOut, apiSecret, hits, routed>>

\* The variables of the pure functions and of the middleware chain
aside == <<eoqText, eoqOut, siValue, siOut, apiSecret, hits, routed>>

----------------------------------------------------------------------------
(* Program constants *)

MaxJobTitleLen == 200
MaxMessages == 100
MaxContentLen == 10000
MaxTTSChars == 1000
LateMessages == 8
TierFinal == 9
TierNearEnd == 7
TierLargeBudget == 8
maxUserMessages == 10
MaxQuestionLen == 2000
MaxTextLen == 4096
MaxAudioBytes == 5242880
ApiLimit == 100
AiLimit == 20
TtsLimit == 30

(* Bounds of the model *)

MaxUserTurns == 10
MaxAsstTurns == 7
MaxTokens == 5
MaxSanitizeLen == 4
MaxArrivals == 2

----------------------------------------------------------------------------
(* Characters and strings *)

\* What String.prototype.trim removes and the regular expressions' \s matches,
\* among the characters of the model.
WhiteSpace == {" ", "\n", "\t", "\r", "\f"}

Rep(c, n) == [i \in 1..n |-> c]

\* The first and the last position that hold no white space (Len + 1 and 0
\* when there is none)
FirstNonWS(s) ==
    CHOOSE i \in 1..(Len(s) + 1) :
        /\ (i = Len(s) + 1 \/ s[i] \notin WhiteSpace)
        /\ \A j \in 1..(i - 1) : s[j] \in WhiteSpace

LastNonWS(s) ==
    CHOOSE i \in 0..Len(s) :
        /\ (i = 0 \/ s[i] \notin WhiteSpace)
        /\ \A j \in (i + 1)..Len(s) : s[j] \in WhiteSpace

\* String.prototype.trim
Trim(s) == SubSeq(s, FirstNonWS(s), LastNonWS(s))

\* String.prototype.includes
Includes(s, sub) ==
    \E i \in 1..(Len(s) - Len(sub) + 1) : SubSeq(s, i, i + Len(sub) - 1) = sub

FEEDBACK_START == <<"-", "-", "-", "F", "E", "E", "D", "B", "A", "C", "K", "_",
                    "S", "T", "A", "R", "T", "-", "-", "-">>

----------------------------------------------------------------------------
(* JavaScript values of the request body *)

Undefined == [t |-> "undefined", s |-> <<>>]
Number == [t |-> "number", s |-> <<>>]
Str(s) == [t |-> "string", s |-> s]

\* role and voice are only compared, never scanned: their payload is a TLA+ string
UndefinedAtom == [t |-> "undefined", s |-> ""]
NumberAtom == [t |-> "number", s |-> "7"]
Atom(s) == [t |-> "string", s |-> s]

\* JavaScript truthiness of an atom (the number of the model is non-zero)
Truthy(v) == (v.t = "string" /\ v.s # "") \/ v.t = "number"

Msg(role, content) ==
    [t |-> "object", role |-> Atom(role), content |-> Str(content)]
NullElem == [t |-> "null", role |-> UndefinedAtom, content |-> Undefined]
NumberElem == [t |-> "number", role |-> UndefinedAtom, content |-> Undefined]
NoRoleElem == [t |-> "object", role |-> UndefinedAtom, content |-> Str(<<"a">>)]
NoContentElem == [t |-> "object", role |-> Atom("user"), content |-> Undefined]

NoMessages == [t |-> "undefined", a |-> <<>>]
NotAnArray == [t |-> "string", a |-> <<>>]
Arr(a) == [t |-> "array", a |-> a]

----------------------------------------------------------------------------
(* Input validation helpers *)

\* validateString without the trim: value.length > 0
validateString_NoTrim(value, maxLength) ==
    /\ value.t = "string"
    /\ Len(value.s) > 0
    /\ Len(value.s) <= maxLength

validateString(value, maxLength) ==
    /\ value.t = "string"
    /\ Len(Trim(value.s)) > 0
    /\ Len(value.s) <= maxLength

\* validateMessages without the cap on the length of a content
validateMessages_NoContentCap(messages) ==
    /\ messages.t = "array"
    /\ Len(messages.a) <= MaxMessages
    /\ \A i \in 1..Len(messages.a) :
          LET msg == messages.a[i] IN
          /\ msg.t = "object"
          /\ msg.role.t = "string"
          /\ msg.content.t = "string"

\* validateMessages that also refuses an empty array
validateMessages_NonEmpty(messages) ==
    /\ validateMessages_NoContentCap(messages)
    /\ Len(messages.a) > 0
    /\ \A i \in 1..Len(messages.a) : Len(messages.a[i].content.s) <= MaxContentLen

validateMessages(messages) ==
    /\ messages.t = "array"
    /\ Len(messages.a) <= MaxMessages
    /\ \A i \in 1..Len(messages.a) :
          LET msg == messages.a[i] IN
          /\ msg.t = "object"
          /\ msg.role.t = "string"
          /\ msg.content.t = "string"
          /\ Len(msg.content.s) <= MaxContentLen

\* sanitizeMessages that forwards the caller's role as it is
sanitizeMessages_KeepsRole(a) ==
    [i \in 1..Len(a) |-> [role |-> a[i].role.s, content |-> a[i].content.s]]

sanitizeMessages(a) ==
    [i \in 1..Len(a) |->
        [role |-> IF a[i].role = Atom("user") THEN "user" ELSE "assistant",
         content |-> a[i].content.s]]

\* sanitizeInput whose replace lacks the g flag: the first match only
sanitizeInput_FirstOnly(value) ==
    IF value.t # "string" THEN <<>>
    ELSE LET isCtl(i) == value.s[i] \in {"\n", "\r", "\t"}
             first(i) == isCtl(i) /\ \A j \in 1..(i - 1) : ~isCtl(j)
         IN  Trim([i \in 1..Len(value.s) |->
                     IF first(i) THEN " " ELSE value.s[i]])

\* value.replace(/[\n\r\t]/g, ' ').trim(), '' for what is not a string
sanitizeInput(value) ==
    IF value.t # "string" THEN <<>>
    ELSE Trim([i \in 1..Len(value.s) |->
                 IF value.s[i] \in {"\n", "\r", "\t"} THEN " " ELSE value.s[i]])

\* sanitizeInput(value) || fallback
OrDefault(text, fallback) == IF text = <<>> THEN <<fallback>> ELSE text

\* safeContent with String(content) in place of the ?? '' default
safeContent_Stringified(response) ==
    IF response.t = "string" THEN response.s
    ELSE <<"u", "n", "d", "e", "f", "i", "n", "e", "d">>

\* response?.choices?.[0]?.message?.content ?? ''
safeContent(response) == IF response.t = "string" THEN response.s ELSE <<>>

----------------------------------------------------------------------------
(* enforceOneQuestion *)

\* /(?:^|\n)\s*1[\.\)]\s/.test(text): a "1", then "." or ")", then white space,
\* reached from the start of the text or from a newline through white space only
TestItem1(text) ==
    \E k \in 1..(Len(text) - 2) :
        /\ text[k] = "1"
        /\ text[k + 1] \in {".", ")"}
        /\ text[k + 2] \in WhiteSpace
        /\ \E j \in 1..k :
              /\ \A i \in j..(k - 1) : text[i] \in WhiteSpace
              /\ (j = 1 \/ text[j - 1] = "\n")

\* /\n\s*2[\.\)]\s/ matches with its newline at position m (1-based)
MatchesItem2At(text, m) ==
    /\ text[m] = "\n"
    /\ \E k \in (m + 1)..(Len(text) - 2) :
          /\ \A i \in (m + 1)..(k - 1) : text[i] \in WhiteSpace
          /\ text[k] = "2"
          /\ text[k + 1] \in {".", ")"}
          /\ text[k + 2] \in WhiteSpace

TestItem2(text) == \E m \in 1..Len(text) : MatchesItem2At(text, m)

\* The rightmost match instead of the leftmost
MatchItem2_Last(text) ==
    CHOOSE m \in 1..Len(text) :
        /\ MatchesItem2At(text, m)
        /\ \A n \in (m + 1)..Len(text) : ~MatchesItem2At(text, n)

\* text.match(...).index + 1: the leftmost match
MatchItem2(text) ==
    CHOOSE m \in 1..Len(text) :
        /\ MatchesItem2At(text, m)
        /\ \A n \in 1..(m - 1) : ~MatchesItem2At(text, n)

\* enforceOneQuestion without the trim of the part it keeps
enforceOneQuestion_NoTrim(text) ==
    LET hasNumberedList == TestItem1(text) /\ TestItem2(text)
    IN  IF ~hasNumberedList THEN text
        ELSE SubSeq(text, 1, MatchItem2(text) - 1)

enforceOneQuestion(text) ==
    LET hasNumberedList == TestItem1(text) /\ TestItem2(text)
    IN  IF ~hasNumberedList THEN text
        ELSE Trim(SubSeq(text, 1, MatchItem2(text) - 1))

----------------------------------------------------------------------------
(* The requests, upstream replies and texts the model draws from *)

Dev == <<"d", "e", "v">>

JobTitles ==
    { Undefined, Number, Str(<<>>), Str(<<" ">>), Str(<<"\n", "\t", " ">>),
      Str(Dev), Str(<<" ">> \o Dev),
      Str(Rep("a", MaxJobTitleLen)), Str(Rep("a", MaxJobTitleLen + 1)),
      Str(Rep(" ", MaxJobTitleLen) \o <<"a">>) }

Min(x, y) == IF x < y THEN x ELSE y

\* A caller history with u user turns and a other turns: alternating while both
\* last, the rest appended; every turn has a content of its own.
History(u, a) ==
    [i \in 1..(u + a) |->
        LET paired == i <= 2 * Min(u, a)
            isUser == IF paired THEN i % 2 = 1 ELSE u > a
        IN  Msg(IF isUser THEN "user"
                ELSE IF i % 3 = 0 THEN "system" ELSE "assistant",
                Rep("a", i))]

Histories ==
    { History(u, a) : u \in 0..MaxUserTurns, a \in {0, MaxAsstTurns} }

UserTurn == Msg("user", <<"a">>)

MessageInputs ==
    { NoMessages, NotAnArray }
    \cup { Arr(h) : h \in Histories }
    \cup { Arr(<<NullElem>>), Arr(<<UserTurn, NullElem>>), Arr(<<NumberElem>>),
           Arr(<<NoRoleElem>>), Arr(<<UserTurn, NoContentElem>>),
           Arr(Rep(UserTurn, MaxMessages)), Arr(Rep(UserTurn, MaxMessages + 1)),
           Arr(<<Msg("user", Rep("a", MaxContentLen))>>),
           Arr(<<UserTurn, Msg("assistant", Rep("a", MaxContentLen + 1))>>) }

validVoices == {"alloy", "echo", "fable", "onyx", "nova", "shimmer"}

Voices == { UndefinedAtom, Atom(""), Atom("onyx"), Atom("robot") }

Handlers == {"real", "realTiered", "mock"}

\* industry, experienceLevel, interviewType
FreeTexts == { Undefined }

BasicMessages ==
    { NoMessages, Arr(<<>>), Arr(<<UserTurn>>), Arr(<<NullElem>>) }

\* Every job title with the basic histories, every history with a plain job title
Requests ==
    [handler : Handlers, jobTitle : JobTitles, messages : BasicMessages,
     industry : FreeTexts, experienceLevel : FreeTexts,
     interviewType : FreeTexts, voice : Voices,
     question : {Undefined}, text : {Undefined}]
    \cup
    [handler : Handlers, jobTitle : {Str(Dev)}, messages : MessageInputs,
     industry : FreeTexts, experienceLevel : FreeTexts,
     interviewType : FreeTexts, voice : Voices,
     question : {Undefined}, text : {Undefined}]

NoRequest ==
    [handler |-> "none", jobTitle |-> Undefined, messages |-> NoMessages,
     industry |-> Undefined, experienceLevel |-> Undefined,
     interviewType |-> Undefined, voice |-> UndefinedAtom,
     question |-> Undefined, text |-> Undefined]

\* Bodies of POST /api/quick-answer
Why == <<"W", "h", "y", "?">>

Questions ==
    { Undefined, Number, Str(<<" ">>), Str(Why), Str(<<"\n">> \o Why \o <<"\t">>),
      Str(Rep("a", MaxQuestionLen)), Str(Rep("a", MaxQuestionLen + 1)) }

QuickRequests ==
    [handler : {"quick"}, jobTitle : {Undefined, Str(Dev)}, messages : {NoMessages},
     industry : FreeTexts \cup {Str(<<"\n">>)}, experienceLevel : {Undefined},
     interviewType : {Undefined}, voice : {UndefinedAtom},
     question : Questions, text : {Undefined}]

\* Bodies of POST /api/tts
SpokenTexts ==
    { Undefined, Str(<<"\t">>), Str(Why), Str(Rep("a", MaxTTSChars + 1)),
      Str(Rep("a", MaxTextLen)), Str(Rep("a", MaxTextLen + 1)) }

NullAtom == [t |-> "null", s |-> ""]

TtsVoices == Voices \cup { NumberAtom, NullAtom, Atom("nova"), Atom("Nova") }

TtsRequests ==
    [handler : {"tts"}, jobTitle : {Undefined}, messages : {NoMessages},
     industry : {Undefined}, experienceLevel : {Undefined},
     interviewType : {Undefined}, voice : TtsVoices,
     question : {Undefined}, text : SpokenTexts]

\* Reply texts of the chat-completion service
OneQuestion == <<"H", "i", "?">>
TwoItems == <<"1", ".", " ", "a", "\n", "2", ".", " ", "b">>
TwoBeforeOne == <<"\n", "2", ".", " ", "a", "\n", "1", ".", " ", "b">>
NearMarker == SubSeq(FEEDBACK_START, 1, Len(FEEDBACK_START) - 1)

ReplyTexts ==
    { OneQuestion, TwoItems, TwoBeforeOne,
      TwoItems \o FEEDBACK_START \o TwoItems, TwoItems \o NearMarker,
      <<" ">>, Rep("a", MaxTTSChars), Rep("a", MaxTTSChars + 1) }

\* What the chat call resolves with (content: a string, or null / no choices) ...
ChatResolutions == { Str(t) : t \in ReplyTexts } \cup { Str(<<>>), Undefined }

\* ... or rejects with: an error with its status and message
\* (a message is a text: its fixed wording is one element, a credential in it is
\* spelled out character by character)
LeakedKey == <<"s", "k", "-", "a", "1", "_", "B", "-", "9">>

Errors ==
    { [status |-> 429, message |-> <<"Rate limit reached">>],
      [status |-> 500, message |-> <<"Request timed out.">>],
      [status |-> 401, message |-> <<"Incorrect API key provided: ">> \o LeakedKey
                                    \o <<".", " ", "s", "k", "-", " ">>] }

\* What the speech call resolves with: a Buffer, of which the code reads the
\* length and which it encodes or sends whole
Buffer(n) == [length |-> n]

AudioBuffers ==
    { Buffer(0), Buffer(3), Buffer(MaxAudioBytes), Buffer(MaxAudioBytes + 1) }

\* Texts given to enforceOneQuestion on its own: up to MaxTokens pieces
Pieces ==
    { <<"1", ".">>, <<"1", ")">>, <<"2", ".">>, <<"2", ")">>, <<"\n">>, <<" ">>,
      <<"a">> }

RECURSIVE Flatten(_)
Flatten(ps) == IF ps = <<>> THEN <<>> ELSE Head(ps) \o Flatten(Tail(ps))

\* ... and a few longer ones
LongerTexts ==
    { TwoItems, TwoBeforeOne,
      <<"\n", "2", ".", "\n", "1", ".", "\n", "2", ".", " ">>,
      <<" ", "\n", "1", ")", " ", "a", " ", "\n", " ", "\t", "2", ")", "\t", "b",
        "\n", "2", ".", " ">>,
      TwoItems \o FEEDBACK_START }

Texts ==
    { Flatten(ps) : ps \in UNION { [1..n -> Pieces] : n \in 0..MaxTokens } }
    \cup LongerTexts

----------------------------------------------------------------------------
(* The response *)

NoAudio == [present |-> FALSE, base64of |-> Buffer(0)]

ErrorBody(text) ==
    [error |-> text, success |-> FALSE, message |-> <<>>,
     hasContainsFeedback |-> FALSE, containsFeedback |-> FALSE,
     audioBase64 |-> NoAudio]

\* { success: true, message, containsFeedback, usage, ...(audioBase64 && {audioBase64}) }
RealBody(message, containsFeedback, audioBase64) ==
    [error |-> "", success |-> TRUE, message |-> message,
     hasContainsFeedback |-> TRUE, containsFeedback |-> containsFeedback,
     audioBase64 |-> audioBase64]

\* { success: true, message, usage, ...(audioBase64 && {audioBase64}) }
MockBody(message, audioBase64) ==
    [error |-> "", success |-> TRUE, message |-> message,
     hasContainsFeedback |-> FALSE, containsFeedback |-> FALSE,
     audioBase64 |-> audioBase64]

\* { success: true, answer, usage }
QuickBody(answer) == [error |-> "", success |-> TRUE, answer |-> answer]

\* res.set({ 'Content-Type': 'audio/mpeg', 'Content-Length': ..., ... }) and
\* res.send(audioBuffer)
AudioBody(audioBuffer) ==
    [error |-> "", contentType |-> "audio/mpeg",
     contentLength |-> audioBuffer.length, sent |-> audioBuffer]

\* A response before anything is written: statusCode 200, headers not sent.
\* sends counts the attempts to send it (res.json, res.send, res.set), those
\* that throw because the headers were already sent included.
FreshResponse ==
    [headersSent |-> FALSE, status |-> 200, body |-> ErrorBody(""), sends |-> 0]

Json(status, body) ==
    [headersSent |-> TRUE, status |-> status, body |-> body, sends |-> res.sends + 1]

HeadersSentError ==
    [status |-> 0,
     message |-> <<"Cannot set headers after they are sent to the client">>]

\* The characters of [a-zA-Z0-9_-]
KeyChars ==
    { "a", "b", "c", "d", "e", "f", "g", "h", "i", "j", "k", "l", "m", "n", "o", "p",
      "q", "r", "s", "t", "u", "v", "w", "x", "y", "z",
      "A", "B", "C", "D", "E", "F", "G", "H", "I", "J", "K", "L", "M", "N", "O", "P",
      "Q", "R", "S", "T", "U", "V", "W", "X", "Y", "Z",
      "0", "1", "2", "3", "4", "5", "6", "7", "8", "9", "_", "-" }

\* /sk-[a-zA-Z0-9_-]+/ matches at position i
KeyAt(msg, i) ==
    /\ i + 3 <= Len(msg)
    /\ msg[i] = "s" /\ msg[i + 1] = "k" /\ msg[i + 2] = "-"
    /\ msg[i + 3] \in KeyChars

\* The last position of the greedy run of key characters that starts at j
KeyEnd(msg, j) ==
    CHOOSE e \in j..Len(msg) :
        /\ \A k \in j..e : msg[k] \in KeyChars
        /\ (e = Len(msg) \/ msg[e + 1] \notin KeyChars)

\* msg.replace(/sk-[a-zA-Z0-9_-]+/g, '[REDACTED]'), from position i on
RECURSIVE Redact(_, _)
Redact(msg, i) ==
    IF i > Len(msg) THEN <<>>
    ELSE IF KeyAt(msg, i)
    THEN <<"[REDACTED]">> \o Redact(msg, KeyEnd(msg, i + 3) + 1)
    ELSE <<msg[i]>> \o Redact(msg, i + 1)

sanitizeError(msg) == Redact(msg, 1)

\* String(reason) of an Error
StringOf(reason) == <<"Error: ">> \o reason.message

\* The chat-completion call rejected with `error`
Rejected(error) == [t |-> "rejected", s |-> error.message, status |-> error.status]

NoSpeech == [kind |-> "none", audio |-> Buffer(0), status |-> 0]

\* The speech call resolved with a buffer, or rejected with `error`
Spoken(audioBuffer) == [kind |-> "audio", audio |-> audioBuffer, status |-> 0]
SpeechError(error) == [kind |-> "error", audio |-> Buffer(0), status |-> error.status]

NoLocals == [aiMessage |-> <<>>, containsFeedback |-> FALSE]

CatchLabel(handler) ==
    IF handler = "mock" THEN "Mock Interview Error:"
    ELSE IF handler = "quick" THEN "Quick Answer Error:"
    ELSE IF handler = "tts" THEN "TTS Error:"
    ELSE "Real Interview Error:"

CatchText(handler) ==
    IF handler = "mock" THEN "Failed to process mock interview. Please try again."
    ELSE IF handler = "quick" THEN "Failed to generate answer. Please try again."
    ELSE IF handler = "tts" THEN "Failed to generate speech. Please try again."
    ELSE "Failed to process interview. Please try again."

BusyText(handler) ==
    IF handler = "tts" THEN "TTS service is busy. Please try again in a moment."
    ELSE "AI service is busy. Please try again in a moment."

\* The handler's catch block, entered with `error` when the log is `lg`.  Its
\* own res.status().json() throws when the headers were already sent (by the
\* timer): the rejection then leaves the async handler and reaches
\* process.on('unhandledRejection').
Catch(handler, error, lg) ==
    LET line == [by |-> CatchLabel(handler), text |-> error.message]
    IN  IF ~res.headersSent
        THEN [res |-> Json(IF error.status = 429 THEN 429 ELSE 500,
                           ErrorBody(IF error.status = 429 THEN BusyText(handler)
                                     ELSE CatchText(handler))),
              log |-> Append(lg, line),
              unhandled |-> unhandled]
        ELSE [res |-> [res EXCEPT !.sends = @ + 1],
              log |-> Append(Append(lg, line),
                             [by |-> "UNHANDLED REJECTION (keeping server alive):",
                              text |-> sanitizeError(StringOf(HeadersSentError))]),
              unhandled |-> unhandled + 1]

\* res.status(status).json(body) inside the handler's try block: it throws when
\* the headers were already sent, and the catch block takes over.
Respond(handler, status, body, lg) ==
    IF ~res.headersSent
    THEN [res |-> Json(status, body), log |-> lg, unhandled |-> unhandled]
    ELSE [Catch(handler, HeadersSentError, lg) EXCEPT !.res.sends = @ + 1]

----------------------------------------------------------------------------
(* Prompt composition and progress tracking *)

\* The template literal of the system prompt: its fixed parts are single
\* elements, the sanitized fields are spliced in character by character.
systemPrompt(r, persona, withType, note) ==
    <<persona, "\n\nContext:\n- Job Title: ">> \o sanitizeInput(r.jobTitle)
    \o <<"\n- Industry: ">> \o OrDefault(sanitizeInput(r.industry), "General")
    \o <<"\n- Experience Level: ">>
    \o OrDefault(sanitizeInput(r.experienceLevel), "Mid-level")
    \o (IF withType
        THEN <<"\n- Interview Type: ">>
             \o OrDefault(sanitizeInput(r.interviewType), "Behavioral and Technical")
        ELSE <<>>)
    \o note

System(content) == [role |-> "system", content |-> content]
Turn(role, literal) == [role |-> role, content |-> <<literal>>]

\* The few-shot exchanges: each content is one literal of the source
FewShotReal ==
    << Turn("user", "Hi, I am here for the interview."),
       Turn("assistant", "Hi, thanks for taking the time to meet today! ..."),
       Turn("user", "Sure - I'm currently a team lead at a mid-size tech company. ..."),
       Turn("assistant", "Got it - managing 8 engineers with ownership over sprint planning ..."),
       Turn("user", "Hello, I am ready for my interview.") >>

FewShotTiered ==
    << Turn("user", "Hi, I am here for the interview."),
       Turn("assistant", "Hi, thanks for joining today. ..."),
       Turn("user", "Sure - I'm currently a team lead at a mid-size tech company. ..."),
       Turn("assistant", "Got it - managing 8 engineers with ownership over sprint planning and delivery. ..."),
       Turn("user", "I usually sit down with the stakeholders, ..."),
       Turn("assistant", "That makes sense - prioritizing by business impact and urgency. ..."),
       Turn("user", "Hello, I am ready for my interview.") >>

FewShotMock ==
    << Turn("user", "Hi, I want to practice."),
       Turn("assistant", "Great to have you here! ..."),
       Turn("user", "Hi, I am ready to practice.") >>

\* !Array.isArray(messages) || messages.length === 0
isInitialMessage(messages) == messages.t # "array" \/ Len(messages.a) = 0

\* max_tokens of src/server.js's real-interview handler
realMaxTokens(messages) ==
    IF isInitialMessage(messages) THEN 200
    ELSE IF messages.t = "array" /\ Len(messages.a) >= LateMessages THEN 1024
    ELSE 512

\* messages.filter(m => m.role === 'user') reads .role of every element: it
\* throws a TypeError on a null element
countThrows(messages) ==
    /\ ~isInitialMessage(messages)
    /\ \E i \in 1..Len(messages.a) : messages.a[i].t = "null"

userMessageCount(messages) ==
    IF isInitialMessage(messages) THEN 0
    ELSE Cardinality({ i \in 1..Len(messages.a) : messages.a[i].role = Atom("user") })

\* The progress note of the tiered handler: which text, and the numbers in it
progressNote(count) ==
    LET remaining == maxUserMessages - count
        note(tier, prints) ==
            [tier |-> tier, message |-> count, of |-> maxUserMessages,
             printsRemaining |-> prints, remaining |-> remaining]
    IN  IF count >= TierFinal THEN note("concludeNow", FALSE)
        ELSE IF count >= TierNearEnd THEN note("endingSoon", TRUE)
        ELSE IF count >= 1 THEN note("coverAllAreas", TRUE)
        ELSE note("none", FALSE)

NoNote == [tier |-> "none", message |-> 0, of |-> 0, printsRemaining |-> FALSE,
           remaining |-> 0]

noteText(note) ==
    IF note.tier = "none" THEN <<>> ELSE <<"\n\n[INTERVIEW PROGRESS: ", note.tier, "]">>

\* The tiered budget with the two follow-up budgets swapped
tieredMaxTokens_Swapped(messages) ==
    IF isInitialMessage(messages) THEN 200
    ELSE IF userMessageCount(messages) >= TierLargeBudget THEN 512
    ELSE 2048

\* maxTokens of the tiered handler
tieredMaxTokens(messages) ==
    IF isInitialMessage(messages) THEN 200
    ELSE IF userMessageCount(messages) >= TierLargeBudget THEN 2048
    ELSE 512

----------------------------------------------------------------------------
(* The middleware chain: what it counts and what it records *)

NoHits == [api |-> 0, ai |-> 0, tts |-> 0]

\* n requests have arrived; the last one, who answered it and with which status
\* (0 when a route handler took it), whether its key was compared with the
\* secret, and the limiters that counted it
NoRoute == [n |-> 0, method |-> "", path |-> "", key |-> UndefinedAtom,
            status |-> 0, by |-> "none", keyChecked |-> FALSE, limiters |-> {}]

----------------------------------------------------------------------------
(* The handlers, up to their first await *)

\* No request has reached a handler
HandlerAtRest ==
    /\ pc = "idle"
    /\ req = NoRequest
    /\ chatCalls = <<>>
    /\ chatReply = Undefined
    /\ ttsCalls = <<>>
    /\ ttsReply = NoSpeech
    /\ loc = NoLocals
    /\ res = FreshResponse
    /\ timerFired = FALSE
    /\ log = <<>>
    /\ unhandled = 0

NotEnforced == [applied |-> FALSE, text |-> <<>>, again |-> <<>>]

EnforceAtRest == eoqText = <<>> /\ eoqOut = NotEnforced

NotSanitized == [applied |-> FALSE, once |-> <<>>, twice |-> <<>>]

SanitizeAtRest == siValue = Undefined /\ siOut = NotSanitized

\* No request has entered the middleware chain; API_SECRET is not set
ChainAtRest == apiSecret = UndefinedAtom /\ hits = NoHits /\ routed = NoRoute

Init == HandlerAtRest /\ EnforceAtRest /\ SanitizeAtRest /\ ChainAtRest

\* The handler answered, or threw into its catch block
Finish(outcome) ==
    /\ pc' = "done"
    /\ res' = outcome.res
    /\ log' = outcome.log
    /\ unhandled' = outcome.unhandled

\* ... and did so before its first await
Answer(outcome) ==
    /\ Finish(outcome)
    /\ UNCHANGED <<chatCalls, chatReply, ttsCalls, ttsReply, loc, timerFired>>

\* await openai.chat.completions.create({ messages, max_tokens, ... })
CallChat(messages, max_tokens, note) ==
    /\ pc' = "awaitChat"
    /\ chatCalls' = Append(chatCalls, [messages |-> messages,
                                       max_tokens |-> max_tokens,
                                       progressNote |-> note])
    /\ UNCHANGED <<chatReply, ttsCalls, ttsReply, loc, res, timerFired, log,
                   unhandled>>

\* POST /api/real-interview of src/server.js
RealInterview(r) ==
    /\ pc = "idle"
    /\ r.handler = "real"
    /\ req' = r
    /\ UNCHANGED aside
    /\ IF ~validateString(r.jobTitle, MaxJobTitleLen)
       THEN Answer(Respond(r.handler, 400,
                           ErrorBody("A valid job title is required"), log))
       ELSE IF ~isInitialMessage(r.messages) /\ ~validateMessages(r.messages)
       THEN Answer(Respond(r.handler, 400,
                           ErrorBody("Invalid messages format"), log))
       ELSE CallChat(
                <<System(systemPrompt(r, "REAL_INTERVIEW_PROMPT", TRUE, <<>>))>>
                \o (IF isInitialMessage(r.messages) THEN FewShotReal
                    ELSE sanitizeMessages(r.messages.a)),
                realMaxTokens(r.messages), NoNote)

\* POST /api/real-interview of the tiered snapshot: the user turns are counted
\* before the messages are validated
RealInterviewTiered(r) ==
    /\ pc = "idle"
    /\ r.handler = "realTiered"
    /\ req' = r
    /\ UNCHANGED aside
    /\ IF ~validateString(r.jobTitle, MaxJobTitleLen)
       THEN Answer(Respond(r.handler, 400,
                           ErrorBody("A valid job title is required"), log))
       ELSE IF countThrows(r.messages)
       THEN Answer(Catch(r.handler,
                         [status |-> 0,
                          message |-> <<"Cannot read properties of null (reading 'role')">>],
                         log))
       ELSE IF ~isInitialMessage(r.messages) /\ ~validateMessages(r.messages)
       THEN Answer(Respond(r.handler, 400,
                           ErrorBody("Invalid messages format"), log))
       ELSE LET note == progressNote(userMessageCount(r.messages)) IN
            CallChat(
                <<System(systemPrompt(r, "REAL_INTERVIEW_PROMPT", TRUE,
                                      noteText(note)))>>
                \o (IF isInitialMessage(r.messages) THEN FewShotTiered
                    ELSE sanitizeMessages(r.messages.a)),
                tieredMaxTokens(r.messages), note)

\* POST /api/mock-interview of src/server.js
MockInterview(r) ==
    /\ pc = "idle"
    /\ r.handler = "mock"
    /\ req' = r
    /\ UNCHANGED aside
    /\ IF ~validateString(r.jobTitle, MaxJobTitleLen)
       THEN Answer(Respond(r.handler, 400,
                           ErrorBody("A valid job title is required"), log))
       ELSE IF r.messages.t # "array" \/ ~validateMessages(r.messages)
       THEN Answer(Respond(r.handler, 400,
                           ErrorBody("Valid messages array is required"), log))
       ELSE CallChat(
                <<System(systemPrompt(r, "MOCK_INTERVIEW_PROMPT", FALSE, <<>>))>>
                \o (IF Len(r.messages.a) = 0 THEN FewShotMock
                    ELSE sanitizeMessages(r.messages.a)),
                IF Len(r.messages.a) = 0 THEN 200 ELSE 1024, NoNote)

\* The prompt and the question POST /api/quick-answer sends
quickMessages(r) ==
    << System(<<"QUICK_ANSWER_PROMPT", "\n\nContext:\n- Job Title: ">>
              \o OrDefault(sanitizeInput(r.jobTitle), "Professional")
              \o <<"\n- Industry: ">>
              \o OrDefault(sanitizeInput(r.industry), "General")),
       [role |-> "user",
        content |-> <<"How should I answer this interview question: \"">>
                    \o sanitizeInput(r.question) \o <<"\"">>] >>

\* POST /api/quick-answer
QuickAnswer(r) ==
    /\ pc = "idle"
    /\ r.handler = "quick"
    /\ req' = r
    /\ UNCHANGED aside
    /\ IF ~validateString(r.question, MaxQuestionLen)
       THEN Answer(Respond(r.handler, 400,
                           ErrorBody("A valid question is required (max 2000 characters)"),
                           log))
       ELSE CallChat(quickMessages(r), 1024, NoNote)

\* const { text, voice = 'nova' } = req.body: the default replaces undefined only
voiceOrDefault(voice) == IF voice.t = "undefined" THEN Atom("nova") ELSE voice

\* validVoices.includes(voice)
isValidVoice(voice) == voice.t = "string" /\ voice.s \in validVoices

\* text.length > 1000 ? text.substring(0, 1000) : text
capText(text) ==
    IF Len(text) > MaxTTSChars THEN SubSeq(text, 1, MaxTTSChars) ELSE text

\* POST /api/tts, up to await openai.audio.speech.create
Tts(r) ==
    /\ pc = "idle"
    /\ r.handler = "tts"
    /\ req' = r
    /\ UNCHANGED aside
    /\ LET voice == voiceOrDefault(r.voice) IN
       IF ~validateString(r.text, MaxTextLen)
       THEN Answer(Respond(r.handler, 400,
                           ErrorBody("Text is required (max 4096 characters)"), log))
       ELSE IF ~isValidVoice(voice)
       THEN Answer(Respond(r.handler, 400,
                           ErrorBody("Invalid voice. Valid options: alloy, echo, fable, onyx, nova, shimmer"),
                           log))
       ELSE /\ pc' = "awaitSpeech"
            /\ ttsCalls' = Append(ttsCalls, [voice |-> voice.s,
                                             input |-> capText(r.text.s)])
            /\ UNCHANGED <<chatCalls, chatReply, ttsReply, loc, res, timerFired,
                           log, unhandled>>

----------------------------------------------------------------------------
(* The handlers, resumed by the upstream replies *)

\* Feedback detection with startsWith in place of includes
containsFeedbackOf_StartsWith(handler, aiMessage) ==
    /\ handler # "mock"
    /\ Len(aiMessage) >= Len(FEEDBACK_START)
    /\ SubSeq(aiMessage, 1, Len(FEEDBACK_START)) = FEEDBACK_START

\* aiMessage.includes('---FEEDBACK_START---'); the mock handler has no such test
containsFeedbackOf(handler, aiMessage) ==
    handler # "mock" /\ Includes(aiMessage, FEEDBACK_START)

\* Post-processing that truncates feedback replies too
postProcess_AlwaysTruncates(handler, aiMessage) == enforceOneQuestion(aiMessage)

\* Post-processing that never truncates
postProcess_Keeps(handler, aiMessage) == aiMessage

\* if (!containsFeedback) aiMessage = enforceOneQuestion(aiMessage), and the mock
\* handler's unconditional aiMessage = enforceOneQuestion(aiMessage)
postProcess(handler, aiMessage) ==
    IF containsFeedbackOf(handler, aiMessage) THEN aiMessage
    ELSE enforceOneQuestion(aiMessage)

\* Inline speech requested whatever containsFeedback is
wantsInlineTTS_IgnoresFeedback(handler, containsFeedback, voice) == Truthy(voice)

\* (!containsFeedback && voice) of the real handlers, voice of the mock handler,
\* and generateInlineTTS's own if (!voice) return null
wantsInlineTTS(handler, containsFeedback, voice) ==
    /\ (handler = "mock" \/ ~containsFeedback)
    /\ Truthy(voice)

\* The inline request with the caller's voice as it is
inlineTTSRequest_PassesVoice(text, voice) ==
    [voice |-> voice.s,
     input |-> IF Len(text) > MaxTTSChars THEN SubSeq(text, 1, MaxTTSChars)
               ELSE text]

\* The inline request with the whole text as input
inlineTTSRequest_Whole(text, voice) ==
    [voice |-> IF voice.t = "string" /\ voice.s \in validVoices
               THEN voice.s ELSE "nova",
     input |-> text]

\* The request generateInlineTTS sends
inlineTTSRequest(text, voice) ==
    [voice |-> IF voice.t = "string" /\ voice.s \in validVoices
               THEN voice.s ELSE "nova",
     input |-> IF Len(text) > MaxTTSChars THEN SubSeq(text, 1, MaxTTSChars)
               ELSE text]

\* The audio field without the test for an empty buffer
audioField_KeepsEmpty(audioBuffer) == [present |-> TRUE, base64of |-> audioBuffer]

\* audioBuffer.length ? audioBuffer.toString('base64') : null, and the spread
\* ...(audioBase64 && { audioBase64 })
audioField(audioBuffer) ==
    IF audioBuffer.length = 0 THEN NoAudio
    ELSE [present |-> TRUE, base64of |-> audioBuffer]

successBody(handler, message, containsFeedback, audioBase64) ==
    IF handler = "mock" THEN MockBody(message, audioBase64)
    ELSE RealBody(message, containsFeedback, audioBase64)

\* The chat-completion call resolves with `response`
ChatResolves(response) ==
    /\ pc = "awaitChat"
    /\ req.handler \in Handlers
    /\ chatReply' = response
    /\ UNCHANGED <<req, chatCalls, ttsReply, timerFired, aside>>
    /\ LET raw == safeContent(response)
           containsFeedback == containsFeedbackOf(req.handler, raw)
           aiMessage == postProcess(req.handler, raw)
       IN  IF raw = <<>>
           THEN /\ Finish(Respond(req.handler, 502,
                                  ErrorBody("AI returned an empty response. Please try again."),
                                  log))
                /\ UNCHANGED <<ttsCalls, loc>>
           ELSE IF wantsInlineTTS(req.handler, containsFeedback, req.voice)
           THEN /\ pc' = "awaitTTS"
                /\ ttsCalls' = Append(ttsCalls, inlineTTSRequest(aiMessage, req.voice))
                /\ loc' = [aiMessage |-> aiMessage,
                           containsFeedback |-> containsFeedback]
                /\ UNCHANGED <<res, log, unhandled>>
           ELSE /\ Finish(Respond(req.handler, 200,
                                  successBody(req.handler, aiMessage,
                                              containsFeedback, NoAudio), log))
                /\ loc' = [aiMessage |-> aiMessage,
                           containsFeedback |-> containsFeedback]
                /\ UNCHANGED ttsCalls

\* The chat-completion call rejects with `error`
ChatRejects(error) ==
    /\ pc = "awaitChat"
    /\ Finish(Catch(req.handler, error, log))
    /\ chatReply' = Rejected(error)
    /\ UNCHANGED <<req, chatCalls, ttsCalls, ttsReply, loc, timerFired, aside>>

\* The speech call resolves with the audio
SpeechResolves(audioBuffer) ==
    /\ pc = "awaitTTS"
    /\ Finish(Respond(req.handler, 200,
                      successBody(req.handler, loc.aiMessage, loc.containsFeedback,
                                  audioField(audioBuffer)), log))
    /\ ttsReply' = Spoken(audioBuffer)
    /\ UNCHANGED <<req, chatCalls, chatReply, ttsCalls, loc, timerFired,
                   aside>>

\* The speech call rejects: generateInlineTTS logs and returns null
SpeechRejects(error) ==
    /\ pc = "awaitTTS"
    /\ Finish(Respond(req.handler, 200,
                      successBody(req.handler, loc.aiMessage, loc.containsFeedback,
                                  NoAudio),
                      Append(log, [by |-> "Inline TTS failed (non-blocking):",
                                   text |-> error.message])))
    /\ ttsReply' = SpeechError(error)
    /\ UNCHANGED <<req, chatCalls, chatReply, ttsCalls, loc, timerFired,
                   aside>>

\* The chat-completion call of POST /api/quick-answer resolves with `response`
QuickResolves(response) ==
    /\ pc = "awaitChat"
    /\ req.handler = "quick"
    /\ chatReply' = response
    /\ LET answer == safeContent(response)
       IN  IF answer = <<>>
           THEN Finish(Respond(req.handler, 502,
                               ErrorBody("AI returned an empty response. Please try again."),
                               log))
           ELSE Finish(Respond(req.handler, 200, QuickBody(answer), log))
    /\ UNCHANGED <<req, chatCalls, ttsCalls, ttsReply, loc, timerFired, aside>>

\* The speech call of POST /api/tts resolves with the audio
TtsResolves(audioBuffer) ==
    /\ pc = "awaitSpeech"
    /\ ttsReply' = Spoken(audioBuffer)
    /\ IF audioBuffer.length = 0
       THEN Finish(Respond(req.handler, 502,
                           ErrorBody("TTS returned empty audio. Please try again."),
                           log))
       ELSE IF audioBuffer.length > MaxAudioBytes
       THEN Finish(Respond(req.handler, 502,
                           ErrorBody("Generated audio too large. Please try shorter text."),
                           Append(log, [by |-> "TTS: Audio too large, rejecting",
                                        text |-> <<>>])))
       ELSE Finish(Respond(req.handler, 200, AudioBody(audioBuffer), log))
    /\ UNCHANGED <<req, chatCalls, chatReply, ttsCalls, loc, timerFired, aside>>

\* The speech call of POST /api/tts rejects with `error`
TtsRejects(error) ==
    /\ pc = "awaitSpeech"
    /\ Finish(Catch(req.handler, error, log))
    /\ ttsReply' = SpeechError(error)
    /\ UNCHANGED <<req, chatCalls, chatReply, ttsCalls, loc, timerFired, aside>>

\* The callback of res.setTimeout(120000, ...)
TimerFires ==
    /\ pc \in {"awaitChat", "awaitTTS", "awaitSpeech", "done"}
    /\ ~timerFired
    /\ timerFired' = TRUE
    /\ res' = IF ~res.headersSent
              THEN Json(408, ErrorBody("Request timed out. Please try again."))
              ELSE res
    /\ UNCHANGED <<pc, req, chatCalls, chatReply, ttsCalls, ttsReply, loc, log,
                   unhandled, aside>>

Next ==
    \/ \E r \in Requests : RealInterview(r)
    \/ \E r \in Requests : RealInterviewTiered(r)
    \/ \E r \in Requests : MockInterview(r)
    \/ \E r \in QuickRequests : QuickAnswer(r)
    \/ \E r \in TtsRequests : Tts(r)
    \/ \E response \in ChatResolutions : QuickResolves(response)
    \/ \E audioBuffer \in AudioBuffers : TtsResolves(audioBuffer)
    \/ \E error \in Errors : TtsRejects(error)
    \/ \E response \in ChatResolutions : ChatResolves(response)
    \/ \E error \in Errors : ChatRejects(error)
    \/ \E audioBuffer \in AudioBuffers : SpeechResolves(audioBuffer)
    \/ \E error \in Errors : SpeechRejects(error)
    \/ TimerFires

Spec == Init /\ [][Next]_vars

----------------------------------------------------------------------------
(* enforceOneQuestion on its own *)

InitEnforce ==
    /\ HandlerAtRest /\ SanitizeAtRest /\ ChainAtRest
    /\ eoqText \in Texts
    /\ eoqOut = NotEnforced

\* enforceOneQuestion applied to eoqText, and applied again to what it returned
ApplyEnforce ==
    /\ ~eoqOut.applied
    /\ eoqOut' = [applied |-> TRUE, text |-> enforceOneQuestion(eoqText),
                   again |-> enforceOneQuestion(enforceOneQuestion(eoqText))]
    /\ UNCHANGED <<pc, req, chatCalls, chatReply, ttsCalls, ttsReply, loc, res,
                   timerFired, log, unhandled, eoqText, siValue, siOut, apiSecret,
                   hits, routed>>

NextEnforce == ApplyEnforce

SpecEnforce == InitEnforce /\ [][NextEnforce]_vars

----------------------------------------------------------------------------
(* The middleware chain, from the arrival of a request to its route handler *)

Paths ==
    { "/", "/api/health", "/api/real-interview", "/api/mock-interview",
      "/api/quick-answer", "/api/tts", "/api/unknown", "/unknown" }

\* The X-API-Key header
Keys == { UndefinedAtom, Atom("s3cret"), Atom("guess") }

Arrivals == [method : {"GET", "POST"}, path : Paths, key : Keys]

\* process.env.API_SECRET
Secrets == { UndefinedAtom, Atom(""), Atom("s3cret") }

\* What the limiters have counted in their current windows
CountedBefore ==
    [api : {0, ApiLimit - 1, ApiLimit + 1}, ai : {0, AiLimit}, tts : {0, TtsLimit}]

\* The middleware and routes mounted on '/api' see the request
underApi(path) == path \notin {"/", "/unknown"}

\* The authentication with no exemption for the health check
skipsAuth_Never(path) == FALSE

\* if (req.path === '/health') return next(), with req.path relative to '/api'
skipsAuth(path) == path = "/api/health"

\* The authentication middleware compares the key of this request
comparesKey(q) == Truthy(apiSecret) /\ underApi(q.path) /\ ~skipsAuth(q.path)

\* The limiter of a POST route
routeLimiter(path) == IF path = "/api/tts" THEN "tts" ELSE "ai"

routeMax(path) == IF path = "/api/tts" THEN TtsLimit ELSE AiLimit

PostRoutes ==
    {"/api/real-interview", "/api/mock-interview", "/api/quick-answer", "/api/tts"}

Routed(q, status, by, limiters) ==
    [n |-> routed.n + 1, method |-> q.method, path |-> q.path, key |-> q.key,
     status |-> status, by |-> by, keyChecked |-> comparesKey(q),
     limiters |-> limiters]

\* One request goes through the chain in the order of app.use / app.get / app.post
Arrive(q) ==
    /\ routed.n < MaxArrivals
    /\ UNCHANGED <<pc, req, chatCalls, chatReply, ttsCalls, ttsReply, loc, res,
                   timerFired, log, unhandled, eoqText, eoqOut, siValue, siOut,
                   apiSecret>>
    /\ IF comparesKey(q) /\ q.key # apiSecret
       THEN routed' = Routed(q, 401, "auth", {}) /\ hits' = hits
       ELSE IF q.method = "GET" /\ q.path = "/"
       THEN routed' = Routed(q, 200, "root", {}) /\ hits' = hits
       ELSE IF q.method = "GET" /\ q.path = "/api/health"
       THEN routed' = Routed(q, 200, "health", {}) /\ hits' = hits
       ELSE IF underApi(q.path) /\ hits.api + 1 > ApiLimit
       THEN /\ routed' = Routed(q, 429, "apiLimiter", {"api"})
            /\ hits' = [hits EXCEPT !.api = @ + 1]
       ELSE LET counted == IF underApi(q.path) THEN {"api"} ELSE {}
                afterApi == IF underApi(q.path) THEN [hits EXCEPT !.api = @ + 1]
                            ELSE hits
                l == routeLimiter(q.path)
            IN  IF q.method = "POST" /\ q.path \in PostRoutes
                THEN /\ hits' = [afterApi EXCEPT ![l] = @ + 1]
                     /\ routed' = IF hits[l] + 1 > routeMax(q.path)
                                  THEN Routed(q, 429, l, counted \cup {l})
                                  ELSE Routed(q, 0, q.path, counted \cup {l})
                ELSE /\ hits' = afterApi
                     /\ routed' = Routed(q, 404, "notFound", counted)

\* The window of a limiter ends: its count starts again
WindowEnds(l) ==
    /\ hits[l] > 0
    /\ hits' = [hits EXCEPT ![l] = 0]
    /\ UNCHANGED <<pc, req, chatCalls, chatReply, ttsCalls, ttsReply, loc, res,
                   timerFired, log, unhandled, eoqText, eoqOut, siValue, siOut,
                   apiSecret, routed>>

InitRoutes ==
    /\ HandlerAtRest /\ EnforceAtRest /\ SanitizeAtRest
    /\ apiSecret \in Secrets
    /\ hits \in CountedBefore
    /\ routed = NoRoute

NextRoutes ==
    \/ \E q \in Arrivals : Arrive(q)
    \/ \E l \in {"api", "ai", "tts"} : WindowEnds(l)

SpecRoutes == InitRoutes /\ [][NextRoutes]_vars

----------------------------------------------------------------------------
(* sanitizeInput on its own *)

SanitizeChars == {"a", " ", "\n", "\r", "\t", "\f"}

SanitizeInputs ==
    { Undefined, Number }
    \cup { Str(t) : t \in UNION { [1..n -> SanitizeChars] : n \in 0..MaxSanitizeLen } }

InitSanitize ==
    /\ HandlerAtRest /\ EnforceAtRest /\ ChainAtRest
    /\ siValue \in SanitizeInputs
    /\ siOut = NotSanitized

\* sanitizeInput(x), and sanitizeInput of its result
ApplySanitize ==
    /\ ~siOut.applied
    /\ siOut' = [applied |-> TRUE,
                 once |-> sanitizeInput(siValue),
                 twice |-> sanitizeInput(Str(sanitizeInput(siValue)))]
    /\ UNCHANGED <<pc, req, chatCalls, chatReply, ttsCalls, ttsReply, loc, res,
                   timerFired, log, unhandled, eoqText, eoqOut, siValue, apiSecret,
                   hits, routed>>

NextSanitize == ApplySanitize

SpecSanitize == InitSanitize /\ [][NextSanitize]_vars

----------------------------------------------------------------------------
(* Vocabulary of the properties *)

AllWhiteSpace(s) == \A i \in 1..Len(s) : s[i] \in WhiteSpace

\* A job title that is missing, not a string, empty or only white space, or too long
BadJobTitle(v) ==
    \/ v.t # "string"
    \/ AllWhiteSpace(v.s)
    \/ Len(v.s) > MaxJobTitleLen

NoUpstreamCall == chatCalls = <<>> /\ ttsCalls = <<>>

Answered(status) == pc = "done" /\ res.headersSent /\ res.status = status

\* An array with more than 100 entries, or with an entry whose content is longer
\* than 10000 characters
OversizedMessages(m) ==
    /\ m.t = "array"
    /\ \/ Len(m.a) > MaxMessages
       \/ \E i \in 1..Len(m.a) :
             m.a[i].content.t = "string" /\ Len(m.a[i].content.s) > MaxContentLen

UserTurnsOf(m) ==
    IF m.t # "array" THEN 0
    ELSE Cardinality({ i \in 1..Len(m.a) : m.a[i].role = Atom("user") })

\* The histories the real-interview handlers accept: absent or empty, or valid
AcceptedHistories ==
    { m \in MessageInputs : isInitialMessage(m) \/ validateMessages(m) }

\* The literal start marker occurs in the text
HasMarker(text) ==
    \E i \in 0..(Len(text) - Len(FEEDBACK_START)) :
        \A j \in 1..Len(FEEDBACK_START) : text[i + j] = FEEDBACK_START[j]

IsReal == req.handler \in {"real", "realTiered"}

\* The digit d at position k opens a numbered item ("d." or "d)" and white space)
\* at the start of a line: only white space lies between it and the start of the
\* text (fromStart) or a newline
ItemAt(text, d, k, fromStart) ==
    /\ k + 2 <= Len(text)
    /\ text[k] = d
    /\ text[k + 1] \in {".", ")"}
    /\ text[k + 2] \in WhiteSpace
    /\ \/ fromStart /\ AllWhiteSpace(SubSeq(text, 1, k - 1))
       \/ \E n \in 1..(k - 1) :
             text[n] = "\n" /\ AllWhiteSpace(SubSeq(text, n, k - 1))

Item1At(text, k) == ItemAt(text, "1", k, TRUE)
Item2At(text, k) == ItemAt(text, "2", k, FALSE)

\* An item 1 at the start of a line, followed later by an item 2
OneThenTwo(text) ==
    \E k1 \in 1..Len(text), k2 \in 1..Len(text) :
        k1 < k2 /\ Item1At(text, k1) /\ Item2At(text, k2)

FirstItem2(text) ==
    CHOOSE k \in 1..Len(text) :
        Item2At(text, k) /\ \A n \in 1..(k - 1) : ~Item2At(text, n)

\* out is p without its trailing white space
RightStripped(out, p) ==
    /\ Len(out) <= Len(p)
    /\ out = SubSeq(p, 1, Len(out))
    /\ AllWhiteSpace(SubSeq(p, Len(out) + 1, Len(p)))
    /\ (out = <<>> \/ out[Len(out)] \notin WhiteSpace)

\* out is p without its leading and trailing white space
Stripped(out, p) ==
    \E i \in 0..Len(p) :
        /\ AllWhiteSpace(SubSeq(p, 1, i))
        /\ (i = Len(p) \/ p[i + 1] \notin WhiteSpace)
        /\ RightStripped(out, SubSeq(p, i + 1, Len(p)))

IsInterview == req.handler \in {"real", "realTiered", "mock"}

\* The speech call was made and rejected, or resolved with an empty buffer
SpeechFailed ==
    /\ ttsCalls # <<>>
    /\ \/ ttsReply.kind = "error"
       \/ ttsReply.kind = "audio" /\ ttsReply.audio.length = 0

\* The chat-completion call resolved without text: no choices or a null content
\* (undefined), or an empty content
NoContent(response) ==
    response.t = "undefined" \/ (response.t = "string" /\ response.s = <<>>)

IsChat == IsInterview \/ req.handler = "quick"

ChatSettled == IsChat /\ chatCalls # <<>> /\ pc # "awaitChat"

\* The response is the one of the response timer
TimedOut == timerFired /\ res.headersSent /\ res.status = 408

----------------------------------------------------------------------------
(* Properties *)

\* C1: on every interview handler a request whose jobTitle is missing, not a
\* string, empty or white space only, or longer than 200 characters is answered
\* with 400, and no chat-completion or speech call is made for it.
C1_BadJobTitleIs400 ==
    (IsInterview /\ BadJobTitle(req.jobTitle))
        => (Answered(400) /\ NoUpstreamCall)

C1_Witness ==
    /\ req.handler = "mock"
    /\ req.jobTitle = Str(<<"\n", "\t", " ">>)
    /\ Answered(400)
    /\ NoUpstreamCall

\* C2: on the real-interview and mock-interview handlers of src/server.js a
\* request with a valid jobTitle whose messages array has more than 100 entries,
\* or an entry with a content longer than 10000 characters, is answered with 400
\* and no upstream call is made.
C2_OversizedMessagesIs400 ==
    (/\ req.handler \in {"real", "mock"}
     /\ ~BadJobTitle(req.jobTitle)
     /\ OversizedMessages(req.messages))
        => (Answered(400) /\ NoUpstreamCall)

C2_Witness ==
    /\ req.handler = "real"
    /\ Len(req.messages.a) = 2
    /\ OversizedMessages(req.messages)
    /\ Answered(400)
    /\ NoUpstreamCall

\* C3 (as claimed): in the tiered handler a request with a valid jobTitle and a
\* non-empty messages array that fails validateMessages is answered with 400
\* 'Invalid messages format', never with 500.
C3_InvalidMessagesIs400 ==
    (/\ req.handler = "realTiered"
     /\ ~BadJobTitle(req.jobTitle)
     /\ req.messages.t = "array"
     /\ Len(req.messages.a) > 0
     /\ ~validateMessages(req.messages))
        => (Answered(400) /\ res.body.error = "Invalid messages format")

\* C4: in the tiered handler the max_tokens chosen for an accepted history with
\* k + 1 user turns is never smaller than the one chosen for any accepted history
\* with k user turns.
C4_TieredBudgetMonotone ==
    (req.handler = "realTiered" /\ Len(chatCalls) = 1)
        => \A m \in AcceptedHistories :
              UserTurnsOf(m) + 1 = UserTurnsOf(req.messages)
                  => tieredMaxTokens(m) <= chatCalls[1].max_tokens

C4_Witness ==
    /\ req.handler = "realTiered"
    /\ Len(chatCalls) = 1
    /\ UserTurnsOf(req.messages) = TierLargeBudget
    /\ chatCalls[1].max_tokens = 2048
    /\ \E m \in AcceptedHistories :
          UserTurnsOf(m) + 1 = TierLargeBudget /\ tieredMaxTokens(m) = 512

\* C5 (as claimed): in src/server.js's real-interview handler the max_tokens
\* chosen for an accepted history with k + 1 user turns is never smaller than the
\* one chosen for any accepted history with k user turns.
C5_RealBudgetMonotone ==
    (req.handler = "real" /\ Len(chatCalls) = 1)
        => \A m \in AcceptedHistories :
              UserTurnsOf(m) + 1 = UserTurnsOf(req.messages)
                  => realMaxTokens(m) <= chatCalls[1].max_tokens

\* C6: every 200 response of the real-interview handlers carries containsFeedback,
\* and it is true exactly when the raw reply text holds the literal
\* '---FEEDBACK_START---'.
C6_FeedbackIffMarker ==
    (IsReal /\ res.headersSent /\ res.status = 200)
        => /\ res.body.hasContainsFeedback
           /\ res.body.containsFeedback <=> HasMarker(chatReply.s)

C6_Witness ==
    /\ IsReal
    /\ Answered(200)
    /\ res.body.containsFeedback
    /\ HasMarker(chatReply.s)
    /\ chatReply.s[1] # "-"

\* C7: on the real-interview handlers, when the raw reply holds the start marker
\* the message of the 200 response is the raw reply, character for character.
C7_FeedbackVerbatim ==
    (IsReal /\ res.headersSent /\ res.status = 200 /\ HasMarker(chatReply.s))
        => res.body.message = chatReply.s

C7_Witness ==
    /\ req.handler = "real"
    /\ Answered(200)
    /\ chatReply.s = TwoItems \o FEEDBACK_START \o TwoItems
    /\ OneThenTwo(chatReply.s)
    /\ res.body.message = chatReply.s

\* C8: on the real-interview handlers the speech service is called only when a
\* voice was requested and the raw reply holds no start marker, and the response
\* has an audioBase64 field only when moreover the speech call returned audio
\* that is not empty; with containsFeedback true or no voice there is no call
\* and no field.
C8_AudioOnlyForVoicedQuestions ==
    IsReal =>
        /\ ttsCalls # <<>> => (Truthy(req.voice) /\ ~HasMarker(chatReply.s))
        /\ res.body.audioBase64.present
               => /\ Truthy(req.voice)
                  /\ ~res.body.containsFeedback
                  /\ ttsReply.kind = "audio"
                  /\ ttsReply.audio.length > 0
        /\ (res.body.containsFeedback \/ ~Truthy(req.voice))
               => (ttsCalls = <<>> /\ ~res.body.audioBase64.present)

C8_Witness ==
    /\ req.handler = "real"
    /\ Answered(200)
    /\ res.body.audioBase64.present
    /\ req.voice = Atom("robot")
    /\ Len(ttsCalls) = 1

C10_OtherTextsUnchanged ==
    (eoqOut.applied /\ ~OneThenTwo(eoqText)) => eoqOut.text = eoqText

MandatoryCallFailed(status) ==
    \/ IsChat /\ chatReply.t = "rejected" /\ chatReply.status = status
    \/ req.handler = "tts" /\ ttsReply.kind = "error" /\ ttsReply.status = status

\* C13 (as claimed): on every endpoint, when the mandatory upstream call fails the
\* handler answers 429 for a failure of status 429 and 500 for every other one,
\* and no exception leaves the handler.
C13_UpstreamFailureIs429Or500 ==
    \A e \in Errors :
        MandatoryCallFailed(e.status)
            => /\ Answered(IF e.status = 429 THEN 429 ELSE 500)
               /\ unhandled = 0

\* C14 (as claimed): POST /api/mock-interview answers a request with a valid
\* jobTitle and an empty messages array with 400, and makes no upstream call.
C14_MockEmptyIs400 ==
    (/\ req.handler = "mock"
     /\ ~BadJobTitle(req.jobTitle)
     /\ req.messages = Arr(<<>>))
        => (Answered(400) /\ NoUpstreamCall)

\* C14 (amended): POST /api/mock-interview requires messages to be an array: with
\* a valid jobTitle, a missing or non-array messages is answered with 400 and no
\* upstream call, while the empty array is accepted and opens the conversation
\* with the built-in few-shot exchange and a max_tokens of 200.
C14_MockNeedsArray ==
    (req.handler = "mock" /\ ~BadJobTitle(req.jobTitle))
        => /\ req.messages.t # "array" => (Answered(400) /\ NoUpstreamCall)
           /\ req.messages = Arr(<<>>)
                  => /\ Len(chatCalls) = 1
                     /\ Tail(chatCalls[1].messages) = FewShotMock
                     /\ chatCalls[1].max_tokens = 200
                     /\ ~Answered(400)

C14_Witness ==
    /\ req.handler = "mock"
    /\ req.messages = Arr(<<>>)
    /\ Len(chatCalls) = 1
    /\ Tail(chatCalls[1].messages) = FewShotMock
    /\ Answered(200)

\* One of the six voice identifiers
Recognized(voice) ==
    voice.t = "string"
    /\ voice.s \in {"alloy", "echo", "fable", "onyx", "nova", "shimmer"}

\* C15: every speech call carries one of the six voice identifiers; POST /api/tts
\* answers a request that supplies any other voice with 400 and makes no upstream
\* call, and the inline synthesis of the interview handlers sends 'nova' in place
\* of any other truthy voice.
C15_VoiceIsRecognized ==
    /\ \A i \in 1..Len(ttsCalls) : Recognized(Atom(ttsCalls[i].voice))
    /\ (req.handler = "tts" /\ req.voice.t # "undefined" /\ ~Recognized(req.voice))
           => (Answered(400) /\ NoUpstreamCall)
    /\ (IsInterview /\ ttsCalls # <<>> /\ ~Recognized(req.voice))
           => ttsCalls[1].voice = "nova"

C15_Witness ==
    /\ req.handler = "tts"
    /\ req.text = Str(Why)
    /\ req.voice = Atom("Nova")
    /\ Answered(400)
    /\ NoUpstreamCall

\* C16: for every accepted interview request with a non-empty history, the chat
\* call carries the system prompt followed by the caller's turns, as many and in
\* the same order, each with its content unchanged and with role 'user' when the
\* caller's role was 'user' and 'assistant' otherwise.
C16_HistoryForwardedInOrder ==
    (IsInterview /\ Len(chatCalls) = 1 /\ req.messages.t = "array"
     /\ Len(req.messages.a) > 0)
        => LET sent == chatCalls[1].messages
               given == req.messages.a
           IN  /\ Len(sent) = 1 + Len(given)
               /\ sent[1].role = "system"
               /\ sent[1].content[1] \in {"REAL_INTERVIEW_PROMPT", "MOCK_INTERVIEW_PROMPT"}
               /\ \A i \in 1..Len(given) :
                     /\ sent[i + 1].content = given[i].content.s
                     /\ sent[i + 1].role = IF given[i].role = Atom("user") THEN "user"
                                           ELSE "assistant"
                     /\ sent[i + 1].role # "system"

C16_Witness ==
    /\ req.handler = "real"
    /\ Len(chatCalls) = 1
    /\ Len(req.messages.a) = MaxUserTurns + MaxAsstTurns
    /\ \E i \in 1..Len(req.messages.a) :
          /\ req.messages.a[i].role = Atom("system")
          /\ chatCalls[1].messages[i + 1].role = "assistant"
          /\ chatCalls[1].messages[i + 1].content = Rep("a", i)

\* C17 (as claimed): once the response timer has fired while the chat call of an
\* interview request is pending, the handler does nothing more for the request:
\* it keeps no processed reply and makes no speech call.
C17_NoWorkAfterTimeout ==
    [][(IsInterview /\ timerFired /\ pc = "awaitChat")
          => (loc' = loc /\ ttsCalls' = ttsCalls)]_vars

\* A credential-like substring, sk-[a-zA-Z0-9_-]+, occurs in the text
HasCredential(text) ==
    \E i \in 1..(Len(text) - 3) :
        /\ text[i] = "s" /\ text[i + 1] = "k" /\ text[i + 2] = "-"
        /\ text[i + 3] \in KeyChars

\* C19 (as claimed): no line written to the error log holds a credential-like
\* substring.
C19_LoggedTextsAreScrubbed ==
    \A i \in 1..Len(log) : ~HasCredential(log[i].text)

\* C20: sanitizeInput is idempotent: a second pass over its result changes
\* nothing, and for a value that is not a string both passes give the empty
\* string.
C20_SanitizeInputIdempotent ==
    siOut.applied
        => /\ siOut.twice = siOut.once
           /\ siValue.t # "string" => (siOut.once = <<>> /\ siOut.twice = <<>>)

C20_Witness ==
    /\ siOut.applied
    /\ siValue = Str(<<"a", "\n", "\t", "a">>)
    /\ siOut.once = <<"a", " ", " ", "a">>
    /\ siOut.twice = siOut.once

\* C18: GET / and GET /api/health are answered 200 by their own routes, with no
\* comparison of the X-API-Key header with API_SECRET and without being counted
\* by any rate limiter, whatever the secret, the header and the counts are.
C18_HealthIsOpen ==
    (routed.method = "GET" /\ routed.path \in {"/", "/api/health"})
        => /\ routed.status = 200
           /\ routed.by = (IF routed.path = "/" THEN "root" ELSE "health")
           /\ ~routed.keyChecked
           /\ routed.limiters = {}

C18_Witness ==
    /\ apiSecret = Atom("s3cret")
    /\ routed.method = "GET"
    /\ routed.path = "/api/health"
    /\ routed.key = UndefinedAtom
    /\ hits.api > ApiLimit
    /\ routed.status = 200

\* The control and line-breaking characters of the model: newline, carriage
\* return, tab and form feed
ControlChars == {"\n", "\r", "\t", "\f"}

\* C21 (as claimed): the value sanitizeInput returns for a caller-supplied field,
\* which is what the handlers embed in the system prompt, holds no newline,
\* carriage return, tab or other control or line-breaking character.
C21_SanitizedHasNoControl ==
    siOut.applied
        => \A i \in 1..Len(siOut.once) : siOut.once[i] \notin ControlChars

\* The tiered handler accepted the request and called the chat service
TieredCalled == req.handler = "realTiered" /\ Len(chatCalls) = 1

\* C22 (as claimed): in the tiered handler the progress directive follows the
\* number of user turns with thresholds 7 and 9: none for 0 user turns, 'cover
\* all evaluation areas' for 1 to 7, 'ending soon' above 7 and below 9,
\* 'conclude now' for 9 or more.
C22_DirectiveThresholds ==
    TieredCalled
        => LET n == UserTurnsOf(req.messages)
               tier == chatCalls[1].progressNote.tier
           IN  /\ (n = 0) => (tier = "none")
               /\ (n >= 1 /\ n <= 7) => (tier = "coverAllAreas")
               /\ (n > 7 /\ n < 9) => (tier = "endingSoon")
               /\ (n >= 9) => (tier = "concludeNow")

\* C23 (as claimed): in the tiered handler the token budget is a function of the
\* directive tier: two accepted histories of the same tier get the same
\* max_tokens, which is 2048 exactly for the 'conclude now' tier and 200 exactly
\* for the histories without a user turn.
C23_BudgetByTier ==
    TieredCalled
        => LET tier == chatCalls[1].progressNote.tier
               budget == chatCalls[1].max_tokens
           IN  /\ \A m \in AcceptedHistories :
                      progressNote(userMessageCount(m)).tier = tier
                          => tieredMaxTokens(m) = budget
               /\ (budget = 2048) <=> (tier = "concludeNow")
               /\ (budget = 200) <=> (UserTurnsOf(req.messages) = 0)

\* The few-shot exchange of the handler that took the request
FewShotOf(handler) == IF handler = "realTiered" THEN FewShotTiered ELSE FewShotReal

\* C24 (as claimed): on /api/real-interview the messages sent after the system
\* prompt are the fixed few-shot exchange exactly when the accepted history has
\* no user turn (absent, empty, or made of non-user turns only).
C24_FewShotIffNoUserTurns ==
    (IsReal /\ Len(chatCalls) = 1)
        => ((Tail(chatCalls[1].messages) = FewShotOf(req.handler))
               <=> (UserTurnsOf(req.messages) = 0))

\* The text holds a line-start item 1 and a newline-preceded item 2
HasBothItems(text) ==
    /\ \E k \in 1..Len(text) : Item1At(text, k)
    /\ \E k \in 1..Len(text) : Item2At(text, k)

\* C25: an interview request makes at most one chat-completion call and at most
\* one speech call; no speech call exists while the chat call is pending; and a
\* speech call exists only when the chat call has resolved with a text that is
\* not empty and that text was post-processed: on the real handlers it holds no
\* feedback marker, and the input spoken no longer holds an item 1 together with
\* an item 2.
C25_CallsInSequence ==
    IsInterview =>
        /\ Len(chatCalls) <= 1
        /\ Len(ttsCalls) <= 1
        /\ (pc = "awaitChat") => (ttsCalls = <<>>)
        /\ (pc = "awaitTTS") => (Len(chatCalls) = 1 /\ Len(ttsCalls) = 1)
        /\ (ttsCalls # <<>>)
               => /\ Len(chatCalls) = 1
                  /\ pc \in {"awaitTTS", "done"}
                  /\ chatReply.t = "string"
                  /\ chatReply.s # <<>>
                  /\ IsReal => (~HasMarker(chatReply.s) /\ ~loc.containsFeedback)
                  /\ ~HasBothItems(ttsCalls[1].input)

C25_Witness ==
    /\ req.handler = "mock"
    /\ pc = "done"
    /\ Len(chatCalls) = 1
    /\ Len(ttsCalls) = 1
    /\ chatReply.s = TwoItems
    /\ HasBothItems(chatReply.s)
    /\ ~HasBothItems(ttsCalls[1].input)
    /\ ttsReply.kind = "audio"

\* s is a prefix of t
IsPrefix(s, t) == Len(s) <= Len(t) /\ s = SubSeq(t, 1, Len(s))

\* The text the speech input is taken from: the post-processed message of an
\* interview handler, the text of a POST /api/tts request
FinalText == IF req.handler = "tts" THEN req.text.s ELSE loc.aiMessage

\* C26: every input sent to the speech service, inline or by POST /api/tts, is
\* the finalized text cut to its first 1000 characters (the whole text when it
\* is not longer), and the message of an interview's 200 response is the whole
\* post-processed message, however long.
C26_SpeechInputCapped ==
    /\ \A i \in 1..Len(ttsCalls) :
          /\ Len(ttsCalls[i].input) <= 1000
          /\ IsPrefix(ttsCalls[i].input, FinalText)
          /\ Len(ttsCalls[i].input) < 1000 => ttsCalls[i].input = FinalText
    /\ (IsInterview /\ res.headersSent /\ res.status = 200)
           => res.body.message = loc.aiMessage

C26_Witness ==
    /\ req.handler = "real"
    /\ Answered(200)
    /\ Len(chatReply.s) = 1001
    /\ Len(ttsCalls) = 1
    /\ Len(ttsCalls[1].input) = 1000
    /\ Len(res.body.message) = 1001

\* C27: what enforceOneQuestion returns, which is the message of every
\* mock-interview reply and of every real-interview reply without the feedback
\* marker, never holds both a line-start item 1 and a newline-preceded item 2,
\* and enforceOneQuestion applied to it returns it unchanged.
C27_OneQuestionStable ==
    /\ eoqOut.applied
           => (~HasBothItems(eoqOut.text) /\ eoqOut.again = eoqOut.text)
    /\ (IsInterview /\ res.headersSent /\ res.status = 200
            /\ ~(IsReal /\ HasMarker(chatReply.s)))
           => ~HasBothItems(res.body.message)

C27_Witness ==
    /\ eoqOut.applied
    /\ HasBothItems(eoqText)
    /\ \E m, n \in 1..Len(eoqText) :
          m < n /\ MatchesItem2At(eoqText, m) /\ MatchesItem2At(eoqText, n)
    /\ eoqOut.text = <<"1", ")", " ", "a">>
    /\ eoqOut.again = eoqOut.text

\* C28 (as claimed): every 200 response of the interview handlers carries a
\* message that is not the empty string, and the speech service is never called
\* by them with an empty input.
C28_MessageNotEmpty ==
    IsInterview =>
        /\ (res.headersSent /\ res.status = 200) => res.body.message # <<>>
        /\ \A i \in 1..Len(ttsCalls) : ttsCalls[i].input # <<>>

\* C29 (as claimed): at most one attempt to send a response is made for a
\* request, by the handler and the timeout callback together: after the 408 of
\* the timer the handler sends nothing, and after the handler's response the
\* timer sends nothing.
C29_AtMostOneResponse == res.sends <= 1

\* C30 (as claimed): in every progress note the tiered handler injects for an
\* accepted history the message number is between 1 and 10, and a remaining
\* count that is printed is positive and is 10 minus the number of user turns.
C30_ProgressNoteConsistent ==
    (TieredCalled /\ chatCalls[1].progressNote.tier # "none")
        => LET note == chatCalls[1].progressNote
           IN  /\ note.message >= 1
               /\ note.message <= 10
               /\ note.of = 10
               /\ note.printsRemaining
                      => /\ note.remaining > 0
                         /\ note.remaining = 10 - UserTurnsOf(req.messages)

====
